---- MODULE Spec2Model ----
(***************************************************************************)
(* A model of roccomarchitto/paxos-python: the Chang-Roberts election of   *)
(* the coordinator, the role assignment, and the single-decree Paxos       *)
(* handlers of ConsensusNode (src/paxos/consensus.py) together with the    *)
(* client of src/paxos/client.py.                                          *)
(*                                                                         *)
(* Hosts are identified by their uid, the index into the host table; a     *)
(* (hostname, port) pair of the source is the uid of the host bound to it. *)
(* The network is a bag of datagrams in flight: UDP may deliver them in    *)
(* any order, and a datagram that is never received is a lost one.         *)
(***************************************************************************)
EXTENDS Integers, Sequences, FiniteSets, Bags, TLC

VARIABLES
    hosts,              \* the host table: uid -> "con" | "cli"
    mode_counts,        \* <<PROPOSERS, ACCEPTORS, LEARNERS>>
    net,                \* bag of datagrams in flight
    phase,              \* per host: position of its main thread
    color,              \* Chang-Roberts colour of a consensus node
    is_leader,
    leader_is_chosen,
    crlistener,         \* state of the election listener thread
    role,
    proposers,          \* per node: its copy of the three role lists
    acceptors,
    learners,
    seq,                \* per node: next ballot
    acceptances,
    promises,
    acks,
    message_queue,
    worker,             \* state of the queue_listen thread
    v,                  \* per client: the value it proposes
    proposer,           \* per client: the proposer hint it was built with
    chosen_proposer,
    chosen_value,       \* per client: the value of the SET it received
    fwd_sent,           \* history: values sent in FWD messages
    ballots,            \* history: per node, ballots of the PROPOSALs it sent
    history,            \* history: per node, the ACKs it sent and the ACCEPTs it
                        \* honored, in order: [ev, v, n]
    sets_emitted,       \* history: per node, values of the SETs it multicast
    early               \* history: the nodes that discarded a datagram while waiting
                        \* for ROLE or handled a Paxos message before START

cfgVars   == <<hosts, mode_counts>>
electVars == <<color, is_leader, leader_is_chosen, crlistener>>
roleVars  == <<role, proposers, acceptors, learners>>
paxosVars == <<seq, acceptances, promises, acks>>
queueVars == <<message_queue, worker>>
cliVars   == <<v, proposer, chosen_proposer, chosen_value>>
histVars  == <<fwd_sent, ballots, history, sets_emitted>>
vars == <<cfgVars, net, phase, electVars, roleVars, paxosVars, queueVars,
          cliVars, histVars, early>>

(***************************************************************************)
(* Sentinels.  The pickled payloads "TERM" (election) and "_" (an ACK that *)
(* reports no accepted pair) are strings where the other payloads of the   *)
(* same header are integers; they are modelled as integers that are no uid *)
(* and no ballot.                                                          *)
(***************************************************************************)
TERM_TOKEN == -1
NO_BALLOT == -1
DEBUG == FALSE
BACKOFF == FALSE

(***************************************************************************)
(* The host table.                                                         *)
(***************************************************************************)
Uids == DOMAIN hosts
con_nodes == {u \in Uids : hosts[u] = "con"}
cli_nodes == {u \in Uids : hosts[u] = "cli"}
NumHosts == Cardinality(Uids)
NumCon == Cardinality(con_nodes)

\* A host table with c consensus nodes followed by k clients.
HostTable(c, k) == [u \in 0..(c + k - 1) |-> IF u < c THEN "con" ELSE "cli"]

Range(s) == {s[k] : k \in DOMAIN s}

(***************************************************************************)
(* Transport.                                                              *)
(***************************************************************************)
udp_send(sender, header, message, to) ==
    [HEADER |-> header, MESSAGE |-> message, to |-> to, SENDERID |-> sender]

udp_multicast(sender, header, message, group) ==
    SetToBag({udp_send(sender, header, message, to) : to \in group})

\* The client's udp_send builds a datagram without SENDERID.
cli_udp_send(header, message, to) ==
    [HEADER |-> header, MESSAGE |-> message, to |-> to]

InFlight(u) == {m \in BagToSet(net) : m.to = u}
Take(m) == net (-) SetToBag({m})

(***************************************************************************)
(* Leader election (Chang-Roberts).                                        *)
(***************************************************************************)
neighbor_id(u) == (u + 1) % NumCon

\* The token a BLACK node passes on when it receives token j.
BlackToken(u, j) == u

\* What a RED node with uid i does with token j: the set of tokens it sends
\* on, its new colour, whether it declares itself leader.
RedForwardsLower(i, j) == j < i
RedForwards(i, j) == j > i

RedIsLeader(i, j) == j = i

\* ChangRoberts: the main thread, after its sleep, sends the node's own uid.
ChangRoberts(u) ==
    /\ phase[u] = "UNINIT"
    /\ phase' = [phase EXCEPT ![u] = "ELECTING"]
    /\ net' = net (+) SetToBag({udp_send(u, "TOKEN", u, neighbor_id(u))})
    /\ UNCHANGED <<cfgVars, early, electVars, roleVars, paxosVars, queueVars, cliVars, histVars>>

TermRecipientsLeaderOnly(u) == {u}
TermRecipients(u) == con_nodes

\* ChangRobertsListener: one iteration of the listener's receive loop.
ChangRobertsListener(u) ==
    /\ crlistener[u] = "LISTEN"
    /\ \E m \in InFlight(u) :
        IF m.HEADER # "TOKEN"
        THEN /\ crlistener' = [crlistener EXCEPT ![u] = "RAISED"]
             /\ net' = Take(m)
             /\ UNCHANGED <<color, is_leader, leader_is_chosen>>
        ELSE IF m.MESSAGE # TERM_TOKEN
        THEN LET j == m.MESSAGE
                 i == u
             IN  IF color[u] = "BLACK"
                 THEN /\ net' = Take(m) (+)
                           SetToBag({udp_send(u, "TOKEN", BlackToken(u, j), neighbor_id(u))})
                      /\ UNCHANGED <<color, is_leader, leader_is_chosen, crlistener>>
                 ELSE /\ color' = IF RedForwards(i, j)
                                  THEN [color EXCEPT ![u] = "BLACK"] ELSE color
                      /\ is_leader' = IF RedIsLeader(i, j)
                                      THEN [is_leader EXCEPT ![u] = TRUE] ELSE is_leader
                      /\ leader_is_chosen' =
                            IF RedIsLeader(i, j)
                            THEN [leader_is_chosen EXCEPT ![u] = TRUE]
                            ELSE leader_is_chosen
                      /\ net' = (Take(m)
                            (+) (IF RedForwards(i, j)
                                 THEN SetToBag({udp_send(u, "TOKEN", j, neighbor_id(u))})
                                 ELSE EmptyBag))
                            (+) (IF RedIsLeader(i, j)
                                 THEN udp_multicast(u, "TOKEN", TERM_TOKEN, TermRecipients(u))
                                 ELSE EmptyBag)
                      /\ UNCHANGED crlistener
        ELSE /\ leader_is_chosen' = [leader_is_chosen EXCEPT ![u] = TRUE]
             /\ crlistener' = [crlistener EXCEPT ![u] = "RETURNED"]
             /\ net' = Take(m)
             /\ UNCHANGED <<color, is_leader>>
    /\ UNCHANGED <<cfgVars, early, phase, roleVars, paxosVars, queueVars, cliVars, histVars>>

\* __init__: the main thread leaves its wait loop once leader_is_chosen is set
\* and finishes the construction.
Constructed(u) ==
    /\ phase[u] = "ELECTING"
    /\ leader_is_chosen[u]
    /\ phase' = [phase EXCEPT ![u] = "INIT"]
    /\ UNCHANGED <<cfgVars, early, net, electVars, roleVars, paxosVars, queueVars, cliVars, histVars>>

\* UDP gives no delivery guarantee: a datagram in flight may be lost.
Lose ==
    /\ \E m \in BagToSet(net) : net' = Take(m)
    /\ UNCHANGED <<cfgVars, early, phase, electVars, roleVars, paxosVars, queueVars, cliVars, histVars>>

(***************************************************************************)
(* Role assignment.                                                        *)
(***************************************************************************)
\* The uids idx = lo, lo+1, ..., lo+count-1 in the order the loops append them.
IdxList(lo, count) == [k \in 1..count |-> lo + k - 1]

\* A walk of the host table that gives the proposer role to one host too many.
RoleOfIdxOffByOne(idx) ==
    IF idx <= mode_counts[1] THEN "PROPOSER"
    ELSE IF idx < mode_counts[1] + mode_counts[2] THEN "ACCEPTOR"
    ELSE "LEARNER"

RoleOfIdx(idx) ==
    IF idx < mode_counts[1] THEN "PROPOSER"
    ELSE IF idx < mode_counts[1] + mode_counts[2] THEN "ACCEPTOR"
    ELSE "LEARNER"

\* InitializeNode on the elected leader: a ROLE to each of the first
\* PROPOSERS + ACCEPTORS + LEARNERS hosts, the three lists kept locally, and
\* the Learner role for itself.
LeaderInitializeNode(u) ==
    /\ phase[u] = "INIT"
    /\ is_leader[u]
    /\ LET P == mode_counts[1]
           A == mode_counts[2]
           L == mode_counts[3]
       IN  /\ P + A + L <= NumHosts
           /\ net' = net (+) SetToBag({udp_send(u, "ROLE", RoleOfIdx(idx), idx) :
                                          idx \in 0..(P + A + L - 1)})
           /\ proposers' = [proposers EXCEPT ![u] = IdxList(0, P)]
           /\ acceptors' = [acceptors EXCEPT ![u] = IdxList(P, A)]
           /\ learners' = [learners EXCEPT ![u] = IdxList(P + A, L)]
    /\ role' = [role EXCEPT ![u] = "LEARNER"]
    /\ phase' = [phase EXCEPT ![u] = "ROLED"]
    /\ UNCHANGED <<cfgVars, early, electVars, paxosVars, queueVars, cliVars, histVars>>

\* InitializeNode on any other consensus node: one iteration of its receive
\* loop, which returns on ROLE and discards everything else.
InitializeNode(u) ==
    /\ phase[u] = "INIT"
    /\ ~is_leader[u]
    /\ \E m \in InFlight(u) :
        /\ net' = Take(m)
        /\ IF m.HEADER # "ROLE"
           THEN /\ early' = early \cup {u}
                /\ UNCHANGED <<role, phase>>
           ELSE /\ role' = [role EXCEPT ![u] = m.MESSAGE]
                /\ phase' = [phase EXCEPT ![u] = "ROLED"]
                /\ UNCHANGED early
    /\ UNCHANGED <<cfgVars, electVars, proposers, acceptors, learners, paxosVars,
                   queueVars, cliVars, histVars>>

StartRecipients == Uids

\* Run: starts the queue worker and the listener; the leader multicasts START.
Run(u) ==
    /\ phase[u] = "ROLED"
    /\ phase' = [phase EXCEPT ![u] = "RUNNING"]
    /\ worker' = [worker EXCEPT ![u] = "RUN"]
    /\ net' = IF is_leader[u]
              THEN net (+) udp_multicast(u, "START",
                              <<proposers[u], acceptors[u], learners[u]>>, StartRecipients)
              ELSE net
    /\ UNCHANGED <<cfgVars, early, electVars, roleVars, paxosVars, message_queue, cliVars, histVars>>

(***************************************************************************)
(* Dispatcher: the listener thread.                                        *)
(***************************************************************************)
MaxQueue == 2

(***************************************************************************)
(* Paxos: pure parts of the handlers of queue_listen.                      *)
(***************************************************************************)
\* A threshold that needs every acceptor.
min_majority_unanimous(u) == Len(acceptors[u])

\* A threshold no set of acceptors reaches.
min_majority_all(u) == Len(acceptors[u]) + 1

\* floor(len(acceptors) / 2) + 1
min_majority(u) == (Len(acceptors[u]) \div 2) + 1

\* The first pair of a non-empty list of (v, n) pairs with the largest n.
MaxTuple(list) ==
    LET k == CHOOSE k \in DOMAIN list :
                /\ \A j \in DOMAIN list : list[j][2] <= list[k][2]
                /\ \A j \in 1..(k - 1) : list[j][2] < list[k][2]
    IN  list[k]

\* The first ack (n1, v, n2) of a non-empty list with the largest n1.
HighestAck(list) ==
    LET k == CHOOSE k \in DOMAIN list :
                /\ \A j \in DOMAIN list : list[j][1] <= list[k][1]
                /\ \A j \in 1..(k - 1) : list[j][1] < list[k][1]
    IN  list[k]

\* greater_proposals / greater_promises: the pairs of a list whose ballot is
\* greater than n.
Greater(list, n) == {k \in DOMAIN list : list[k][2] > n}

\* n1_ack_list: the acks counted towards the majority for n1.
N1AckList(list, n1) == {k \in DOMAIN list : list[k][1] = n1 \/ list[k][3] = n1}

\* acceptance_list: the learned pairs counted towards the majority for n.
AcceptanceList(list, n) == {k \in DOMAIN list : list[k][2] = n}

\* The value and ballot of the ACCEPT a proposer multicasts on a majority for n1.
AcceptReq(u, acklist, n1) ==
    IF acceptances[u] # <<>>
    THEN MaxTuple(acceptances[u])
    ELSE <<HighestAck(acklist)[2], n1>>

\* The next ballot of a proposer after it used seq[u].
NextSeq(u) == seq[u] + NumHosts

(***************************************************************************)
(* Paxos: the handlers of queue_listen, one per header.  Each is given the *)
(* node u, the message, and the datagrams in flight it adds its own to.    *)
(***************************************************************************)
\* An exception raised in queue_listen ends the worker thread.
Raise(u, base) ==
    /\ worker' = [worker EXCEPT ![u] = "RAISED"]
    /\ net' = base
    /\ UNCHANGED <<phase, proposers, acceptors, learners, paxosVars, histVars>>

HandleSTART(u, message, base) ==
    LET roles_tuple == message.MESSAGE
    IN  /\ proposers' = [proposers EXCEPT ![u] = roles_tuple[1]]
        /\ acceptors' = [acceptors EXCEPT ![u] = roles_tuple[2]]
        /\ learners' = [learners EXCEPT ![u] = roles_tuple[3]]
        /\ net' = base
        /\ UNCHANGED <<phase, paxosVars, worker, histVars>>

\* os._exit(0)
HandleTERM(u, message, base) ==
    /\ phase' = [phase EXCEPT ![u] = "TERMINATED"]
    /\ net' = base
    /\ UNCHANGED <<proposers, acceptors, learners, paxosVars, worker, histVars>>

\* Phase 1a
HandleFWD(u, message, base) ==
    IF role[u] # "PROPOSER" THEN Raise(u, base)
    ELSE LET VAL == message.MESSAGE
             msg == <<VAL, seq[u]>>
         IN  /\ net' = base (+) udp_multicast(u, "PROPOSAL", msg, Range(acceptors[u]))
             /\ ballots' = IF acceptors[u] # <<>>
                           THEN [ballots EXCEPT ![u] = Append(@, seq[u])]
                           ELSE ballots
             /\ seq' = [seq EXCEPT ![u] = NextSeq(u)]
             /\ UNCHANGED <<phase, proposers, acceptors, learners, acceptances, promises,
                            acks, worker, fwd_sent, history, sets_emitted>>

\* Phase 1b
HandlePROPOSAL(u, message, base) ==
    IF role[u] # "ACCEPTOR" THEN Raise(u, base)
    ELSE LET pv == message.MESSAGE[1]
             n == message.MESSAGE[2]
             temp == Append(promises[u], <<pv, n>>)
             greater_proposals == Greater(temp, n)
             rec == message.SENDERID
         IN  IF greater_proposals = {}
             THEN LET max_tuple == MaxTuple(acceptances[u])
                      ack == IF acceptances[u] # <<>>
                             THEN <<n, max_tuple[1], max_tuple[2]>>
                             ELSE <<n, pv, NO_BALLOT>>
                      promise == IF acceptances[u] # <<>> THEN max_tuple ELSE <<pv, n>>
                  IN  /\ promises' = [promises EXCEPT ![u] = Append(@, promise)]
                      /\ net' = base (+) SetToBag({udp_send(u, "ACK", ack, rec)})
                      /\ history' = [history EXCEPT ![u] =
                                        Append(@, [ev |-> "ACK", v |-> ack[2], n |-> n])]
                      /\ UNCHANGED <<phase, proposers, acceptors, learners, seq, acceptances,
                                     acks, worker, fwd_sent, ballots, sets_emitted>>
             \* The NACK is sent only when DEBUG is set.
             ELSE /\ net' = base
                  /\ UNCHANGED <<phase, proposers, acceptors, learners, paxosVars,
                                 worker, histVars>>

\* BACKOFF is off: a NACK has no effect.
HandleNACK(u, message, base) ==
    IF role[u] # "PROPOSER" THEN Raise(u, base)
    ELSE /\ net' = base
         /\ UNCHANGED <<phase, proposers, acceptors, learners, paxosVars, worker, histVars>>

\* Phase 2a
HandleACK(u, message, base) ==
    IF role[u] # "PROPOSER" THEN Raise(u, base)
    ELSE LET n1 == message.MESSAGE[1]
             acklist == Append(acks[u], message.MESSAGE)
             n1_ack_list == N1AckList(acklist, n1)
         IN  /\ acks' = [acks EXCEPT ![u] = acklist]
             /\ net' = IF Cardinality(n1_ack_list) >= min_majority(u)
                       THEN base (+) udp_multicast(u, "ACCEPT", AcceptReq(u, acklist, n1),
                                                   Range(acceptors[u]))
                       ELSE base
             /\ UNCHANGED <<phase, proposers, acceptors, learners, seq, acceptances,
                            promises, worker, histVars>>

\* An acceptor that compares an ACCEPT with its oldest promise only.
HonorsOldest(list, n) == list = <<>> \/ list[1][2] <= n

\* An acceptor that honors every ACCEPT, whatever it promised.
HonorsAlways(list, n) == TRUE

\* Whether an acceptor with this promise list honors an ACCEPT with ballot n.
Honors(list, n) == Greater(list, n) = {}

\* Phase 2b
HandleACCEPT(u, message, base) ==
    IF role[u] # "ACCEPTOR" THEN Raise(u, base)
    ELSE LET av == message.MESSAGE[1]
             n == message.MESSAGE[2]
         IN  IF Honors(promises[u], n)
             THEN /\ net' = (base (+) udp_multicast(u, "ACCEPT-VALUE", <<av, n>>,
                                                    Range(proposers[u])))
                                  (+) udp_multicast(u, "LEARN", <<av, n>>, Range(learners[u]))
                  /\ history' = [history EXCEPT ![u] =
                                    Append(@, [ev |-> "HONOR", v |-> av, n |-> n])]
                  /\ UNCHANGED <<phase, proposers, acceptors, learners, paxosVars, worker,
                                 fwd_sent, ballots, sets_emitted>>
             ELSE /\ net' = base
                  /\ UNCHANGED <<phase, proposers, acceptors, learners, paxosVars,
                                 worker, histVars>>

\* A learner that announces the ballot in place of the value.
SetValueBallot(lv, n) == n

\* The value of the SET a learner multicasts for LEARN(v, n).
SetValue(lv, n) == lv

\* A learner handler that records the pair before it checks the role.
HandleLEARNAppendsFirst(u, message, base) ==
    LET lv == message.MESSAGE[1]
        n == message.MESSAGE[2]
        learned == Append(acceptances[u], <<lv, n>>)
        decided == Cardinality(AcceptanceList(learned, n)) >= min_majority(u)
    IN  /\ acceptances' = [acceptances EXCEPT ![u] = learned]
        /\ IF role[u] # "LEARNER"
           THEN /\ worker' = [worker EXCEPT ![u] = "RAISED"]
                /\ net' = base
                /\ UNCHANGED sets_emitted
           ELSE /\ net' = IF decided
                          THEN base (+) udp_multicast(u, "SET", SetValue(lv, n), cli_nodes)
                          ELSE base
                /\ sets_emitted' = IF decided /\ cli_nodes # {}
                                   THEN [sets_emitted EXCEPT ![u] = @ \cup {SetValue(lv, n)}]
                                   ELSE sets_emitted
                /\ UNCHANGED worker
        /\ UNCHANGED <<phase, proposers, acceptors, learners, seq, promises, acks,
                       fwd_sent, ballots, history>>

\* Phase 3
HandleLEARN(u, message, base) ==
    IF role[u] # "LEARNER" THEN Raise(u, base)
    ELSE LET lv == message.MESSAGE[1]
             n == message.MESSAGE[2]
             learned == Append(acceptances[u], <<lv, n>>)
             acceptance_list == AcceptanceList(learned, n)
             decided == Cardinality(acceptance_list) >= min_majority(u)
         IN  /\ acceptances' = [acceptances EXCEPT ![u] = learned]
             /\ net' = IF decided
                       THEN base (+) udp_multicast(u, "SET", SetValue(lv, n), cli_nodes)
                       ELSE base
             /\ sets_emitted' = IF decided /\ cli_nodes # {}
                                THEN [sets_emitted EXCEPT ![u] = @ \cup {SetValue(lv, n)}]
                                ELSE sets_emitted
             /\ UNCHANGED <<phase, proposers, acceptors, learners, seq, promises, acks,
                            worker, fwd_sent, ballots, history>>

\* A header no branch of queue_listen matches (ROLE, TOKEN, ...) is popped and
\* ignored.
HandleOther(u, message, base) ==
    /\ net' = base
    /\ UNCHANGED <<phase, proposers, acceptors, learners, paxosVars, worker, histVars>>

\* The routing of queue_listen: the handler of the message's header.
Route(u, message, base) ==
    CASE message.HEADER = "START" -> HandleSTART(u, message, base)
      [] message.HEADER = "TERM" -> HandleTERM(u, message, base)
      [] message.HEADER = "FWD" -> HandleFWD(u, message, base)
      [] message.HEADER = "PROPOSAL" -> HandlePROPOSAL(u, message, base)
      [] message.HEADER = "NACK" -> HandleNACK(u, message, base)
      [] message.HEADER = "ACK" -> HandleACK(u, message, base)
      [] message.HEADER = "ACCEPT" -> HandleACCEPT(u, message, base)
      [] message.HEADER = "LEARN" -> HandleLEARN(u, message, base)
      [] OTHER -> HandleOther(u, message, base)

\* A Paxos message handled by a node that has not processed START: its role
\* lists are still empty.
PaxosHeaders == {"FWD", "PROPOSAL", "NACK", "ACK", "ACCEPT", "ACCEPT-VALUE", "LEARN"}
BeforeStart(u, message) ==
    /\ message.HEADER \in PaxosHeaders
    /\ proposers[u] = <<>> /\ acceptors[u] = <<>> /\ learners[u] = <<>>

\* queue_listen: the worker pops one message and routes it by header.
queue_listen(u) ==
    /\ phase[u] = "RUNNING"
    /\ worker[u] = "RUN"
    /\ Len(message_queue[u]) > 0
    /\ LET message == Head(message_queue[u])
       IN  /\ message_queue' = [message_queue EXCEPT ![u] = Tail(@)]
           /\ Route(u, message, net)
           /\ early' = IF BeforeStart(u, message) THEN early \cup {u} ELSE early
    /\ UNCHANGED <<cfgVars, electVars, role, cliVars>>

\* A listener that puts every datagram on the queue.
BypassesQueueNever(m) == FALSE

\* The datagrams the listener applies itself and does not put on the queue.
BypassesQueue(m) == m.HEADER = "ACCEPT-VALUE"

\* The ACCEPT-VALUE fast path of udp_listen.
FastPath(u, m) ==
    /\ acceptances' = [acceptances EXCEPT ![u] = Append(@, m.MESSAGE)]
    /\ net' = Take(m) (+) udp_multicast(u, "LEARN", m.MESSAGE, Range(learners[u]))

\* udp_listen: one iteration of the listener's receive loop.
udp_listen(u) ==
    /\ phase[u] = "RUNNING"
    /\ \E m \in InFlight(u) :
        IF BypassesQueue(m)
        THEN /\ FastPath(u, m)
             /\ early' = IF BeforeStart(u, m) THEN early \cup {u} ELSE early
             /\ UNCHANGED message_queue
        ELSE /\ Len(message_queue[u]) < MaxQueue
             /\ message_queue' = [message_queue EXCEPT ![u] = Append(@, m)]
             /\ net' = Take(m)
             /\ UNCHANGED <<acceptances, early>>
    /\ UNCHANGED <<cfgVars, phase, electVars, roleVars, seq, promises, acks, worker,
                   cliVars, histVars>>

\* udp_listen and queue_listen in one step: the listener receives a datagram
\* while the queue is empty and the polling worker pops and routes it before
\* anything else happens; an ACCEPT-VALUE is applied by the listener itself.
\* Datagrams arrive in any order, so every order in which a node can handle
\* its messages arises this way too.
Dispatch(u) ==
    /\ phase[u] = "RUNNING"
    /\ message_queue[u] = <<>>
    /\ \E m \in InFlight(u) :
        /\ IF BypassesQueue(m)
           THEN /\ FastPath(u, m)
                /\ UNCHANGED <<phase, proposers, acceptors, learners, seq, promises, acks,
                               worker, histVars>>
           ELSE /\ worker[u] = "RUN"
                /\ Route(u, m, Take(m))
        /\ early' = IF BeforeStart(u, m) THEN early \cup {u} ELSE early
    /\ UNCHANGED <<cfgVars, electVars, role, cliVars, message_queue>>

(***************************************************************************)
(* The client.                                                             *)
(***************************************************************************)
\* clidriver.py: the proposer hint handed to ClientNode.
clidriver_PROPOSER(uid, proposer_arg) == uid

\* ClientNode.InitializeNode: receives one datagram; START gives the target.
ClientInitializeNode(c) ==
    /\ phase[c] = "INIT"
    /\ \E m \in InFlight(c) :
        /\ net' = Take(m)
        /\ IF m.HEADER = "START" /\ Len(m.MESSAGE[1]) > 0
           THEN LET plist == m.MESSAGE[1]
                    proposer_idx == proposer[c] % Len(plist)
                IN  /\ chosen_proposer' = [chosen_proposer EXCEPT ![c] = plist[proposer_idx + 1]]
                    /\ phase' = [phase EXCEPT ![c] = "SET"]
           ELSE /\ phase' = [phase EXCEPT ![c] = "RAISED"]
                /\ UNCHANGED chosen_proposer
    /\ UNCHANGED <<cfgVars, early, electVars, roleVars, paxosVars, queueVars, v, proposer,
                   chosen_value, histVars>>

\* ClientNode.Set: forwards the client's value to the chosen proposer.
Set(c) ==
    /\ phase[c] = "SET"
    /\ net' = net (+) SetToBag({cli_udp_send("FWD", v[c], chosen_proposer[c])})
    /\ fwd_sent' = fwd_sent \cup {v[c]}
    /\ phase' = [phase EXCEPT ![c] = "WAIT"]
    /\ UNCHANGED <<cfgVars, early, electVars, roleVars, paxosVars, queueVars, cliVars,
                   ballots, history, sets_emitted>>

\* ClientNode.wait: the first datagram decides: a SET is the decision, anything
\* else raises.
wait(c) ==
    /\ phase[c] = "WAIT"
    /\ \E m \in InFlight(c) :
        /\ net' = Take(m)
        /\ IF m.HEADER = "SET"
           THEN /\ chosen_value' = [chosen_value EXCEPT ![c] = <<m.MESSAGE>>]
                /\ phase' = [phase EXCEPT ![c] = "DECIDED"]
           ELSE /\ phase' = [phase EXCEPT ![c] = "RAISED"]
                /\ UNCHANGED chosen_value
    /\ UNCHANGED <<cfgVars, early, electVars, roleVars, paxosVars, queueVars, v, proposer,
                   chosen_proposer, histVars>>

\* ClientNode.CleanupNode: TERM to every host, then the client exits.
CleanupNode(c) ==
    /\ phase[c] = "DECIDED"
    /\ net' = net (+) SetToBag({cli_udp_send("TERM", "", to) : to \in Uids})
    /\ phase' = [phase EXCEPT ![c] = "EXITED"]
    /\ UNCHANGED <<cfgVars, early, electVars, roleVars, paxosVars, queueVars, cliVars, histVars>>

(***************************************************************************)
(* Initial states.                                                         *)
(***************************************************************************)
\* The value of the k-th client of the host table.
Values == <<42, 41>>

\* The proposer argument on the command line of the k-th client.
Hints == <<0, 0>>

\* What every run starts with: the host table of c consensus nodes and k
\* clients, the role counts, and the fields the constructors set.
InitFields(c, k, counts) ==
    /\ hosts = HostTable(c, k)
    /\ mode_counts = counts
    /\ net = EmptyBag
    /\ seq = [u \in 0..(c - 1) |-> u]
    /\ acceptances = [u \in 0..(c - 1) |-> <<>>]
    /\ promises = [u \in 0..(c - 1) |-> <<>>]
    /\ acks = [u \in 0..(c - 1) |-> <<>>]
    /\ message_queue = [u \in 0..(c - 1) |-> <<>>]
    /\ v = [u \in c..(c + k - 1) |-> Values[u - c + 1]]
    /\ proposer = [u \in c..(c + k - 1) |-> clidriver_PROPOSER(u, Hints[u - c + 1])]
    /\ chosen_value = [u \in c..(c + k - 1) |-> <<>>]
    /\ fwd_sent = {}
    /\ ballots = [u \in 0..(c - 1) |-> <<>>]
    /\ history = [u \in 0..(c - 1) |-> <<>>]
    /\ sets_emitted = [u \in 0..(c - 1) |-> {}]
    /\ early = {}

\* No role is assigned yet and no START has been received.
InitUnassigned(c, k) ==
    /\ role = [u \in 0..(c - 1) |-> ""]
    /\ proposers = [u \in 0..(c - 1) |-> <<>>]
    /\ acceptors = [u \in 0..(c - 1) |-> <<>>]
    /\ learners = [u \in 0..(c - 1) |-> <<>>]
    /\ worker = [u \in 0..(c - 1) |-> "IDLE"]
    /\ chosen_proposer = [u \in c..(c + k - 1) |-> -1]

\* The consensus nodes at the start of ChangRoberts: RED, listener started.
InitElecting(c, k, counts) ==
    /\ InitFields(c, k, counts)
    /\ InitUnassigned(c, k)
    /\ phase = [u \in 0..(c + k - 1) |-> IF u < c THEN "UNINIT" ELSE "INIT"]
    /\ color = [u \in 0..(c - 1) |-> "RED"]
    /\ is_leader = [u \in 0..(c - 1) |-> FALSE]
    /\ leader_is_chosen = [u \in 0..(c - 1) |-> FALSE]
    /\ crlistener = [u \in 0..(c - 1) |-> "LISTEN"]

\* The consensus nodes once every constructor has returned: the election is
\* over, the node with the largest uid is the leader.
InitElected(c) ==
    /\ color = [u \in 0..(c - 1) |-> IF u = c - 1 THEN "RED" ELSE "BLACK"]
    /\ is_leader = [u \in 0..(c - 1) |-> u = c - 1]
    /\ leader_is_chosen = [u \in 0..(c - 1) |-> TRUE]
    /\ crlistener = [u \in 0..(c - 1) |-> "RETURNED"]

InitConstructed(c, k, counts) ==
    /\ InitFields(c, k, counts)
    /\ InitUnassigned(c, k)
    /\ InitElected(c)
    /\ phase = [u \in 0..(c + k - 1) |-> "INIT"]

(***************************************************************************)
(* Spec: role assignment, the client edge and Paxos from the constructed   *)
(* nodes on; datagrams are delivered in any order or never.                *)
(***************************************************************************)
Init == InitConstructed(4, 2, <<2, 1, 1>>) \/ InitConstructed(3, 2, <<1, 1, 1>>)

Next ==
    \/ \E u \in con_nodes : LeaderInitializeNode(u)
    \/ \E u \in con_nodes : InitializeNode(u)
    \/ \E u \in con_nodes : Run(u)
    \/ \E u \in con_nodes : udp_listen(u)
    \/ \E u \in con_nodes : queue_listen(u)
    \/ \E c \in cli_nodes : ClientInitializeNode(c)
    \/ \E c \in cli_nodes : Set(c)
    \/ \E c \in cli_nodes : wait(c)

Spec == Init /\ [][Next]_vars

(***************************************************************************)
(* SpecPaxos: Paxos proper, from the state Spec reaches when every ROLE    *)
(* and every START has been delivered and processed: the consensus nodes   *)
(* run with their roles and role lists, the clients have their target.     *)
(***************************************************************************)
InitStarted(c, k, counts) ==
    /\ InitFields(c, k, counts)
    /\ InitElected(c)
    /\ phase = [u \in 0..(c + k - 1) |-> IF u < c THEN "RUNNING" ELSE "SET"]
    /\ role = [u \in 0..(c - 1) |-> IF u = c - 1 THEN "LEARNER" ELSE RoleOfIdx(u)]
    /\ proposers = [u \in 0..(c - 1) |-> IdxList(0, counts[1])]
    /\ acceptors = [u \in 0..(c - 1) |-> IdxList(counts[1], counts[2])]
    /\ learners = [u \in 0..(c - 1) |-> IdxList(counts[1] + counts[2], counts[3])]
    /\ worker = [u \in 0..(c - 1) |-> "RUN"]
    /\ chosen_proposer = [u \in c..(c + k - 1) |->
                             IdxList(0, counts[1])[(proposer[u] % counts[1]) + 1]]

InitPaxos == InitStarted(4, 2, <<1, 2, 1>>)

NextPaxos ==
    \/ \E u \in con_nodes : Dispatch(u)
    \/ \E c \in cli_nodes : Set(c)
    \/ \E c \in cli_nodes : wait(c)

SpecPaxos == InitPaxos /\ [][NextPaxos]_vars

(***************************************************************************)
(* Paxos properties.                                                       *)
(***************************************************************************)
\* The acceptors that honored ACCEPT(val, n).
Honored(val, n) ==
    {a \in con_nodes : \E k \in DOMAIN history[a] :
        history[a][k] = [ev |-> "HONOR", v |-> val, n |-> n]}

\* The pairs some acceptor honored.
HonoredPairs ==
    UNION {{<<history[a][k].v, history[a][k].n>> :
                k \in {j \in DOMAIN history[a] : history[a][j].ev = "HONOR"}} :
           a \in con_nodes}

\* floor(A/2) + 1 for the configured number of acceptors.
Majority == (mode_counts[2] \div 2) + 1

\* The pairs honored by a majority of the acceptors.
ChosenPairs == {p \in HonoredPairs : Cardinality(Honored(p[1], p[2])) >= Majority}

\* C1 (Agreement): two clients that received SET(x) and SET(y) have x = y.
C1_Agreement ==
    \A c1, c2 \in cli_nodes :
        (chosen_value[c1] # <<>> /\ chosen_value[c2] # <<>>)
            => chosen_value[c1] = chosen_value[c2]

\* C2 (Chosen-value safety): the pairs accepted by floor(A/2)+1 acceptors all
\* carry the same value.
C2_ChosenValueSafety ==
    \A p, q \in ChosenPairs : p[1] = q[1]

\* C3 (Decision stickiness): all the SETs a learner multicasts in a run carry
\* the same value.
C3_DecisionStickiness ==
    \A u \in con_nodes : Cardinality(sets_emitted[u]) <= 1

\* C4 (Validity): the value of every SET message, in flight or received by a
\* client, was sent by some client in a FWD message.
C4_Validity ==
    /\ \A m \in BagToSet(net) : m.HEADER = "SET" => m.MESSAGE \in fwd_sent
    /\ \A u \in con_nodes : sets_emitted[u] \subseteq fwd_sent
    /\ \A c \in cli_nodes : Range(chosen_value[c]) \subseteq fwd_sent

\* A client has received a SET and taken its value as the decision.
C4_Witness ==
    \E c \in cli_nodes : phase[c] = "DECIDED" /\ chosen_value[c] # <<>>

\* C5 (Ballot uniqueness): the k-th PROPOSAL of proposer p carries ballot
\* uid(p) + k*N, and no two proposers multicast a PROPOSAL with the same ballot.
C5_BallotUniqueness ==
    /\ \A p \in con_nodes : \A k \in DOMAIN ballots[p] :
           ballots[p][k] = p + (k - 1) * NumHosts
    /\ \A p, q \in con_nodes :
           p # q => Range(ballots[p]) \cap Range(ballots[q]) = {}

\* C6 (Promise monotonicity): an acceptor that replied ACK to a PROPOSAL with
\* ballot n honors no ACCEPT with a ballot less than n afterwards.
C6_PromiseMonotonicity ==
    \A a \in con_nodes : \A i, j \in DOMAIN history[a] :
        (i < j /\ history[a][i].ev = "ACK" /\ history[a][j].ev = "HONOR")
            => history[a][j].n >= history[a][i].n

\* An acceptor promised a ballot, the ACCEPT of a lower ballot that another
\* acceptor honored has been delivered to it too, and it did not honor it.
C6_Witness ==
    \E a, b \in con_nodes : \E i \in DOMAIN history[a] : \E j \in DOMAIN history[b] :
        /\ a # b /\ role[a] = "ACCEPTOR"
        /\ history[a][i].ev = "ACK"
        /\ history[b][j].ev = "HONOR"
        /\ history[b][j].n < history[a][i].n
        /\ \A m \in InFlight(a) : ~(m.HEADER = "ACCEPT" /\ m.MESSAGE[2] = history[b][j].n)
        /\ \A k \in DOMAIN history[a] :
               ~(history[a][k].ev = "HONOR" /\ history[a][k].n = history[b][j].n)

(***************************************************************************)
(* SpecSlowAcceptor: two ballots with three acceptors and a slow one.      *)
(* Proposer 0, acceptors 1..3, coordinator 4, clients 5 and 6 (N = 7), no  *)
(* learner listed.  The run starts in the state reached when the proposer  *)
(* has handled FWD(42) and FWD(41); acceptors 2 and 3 have promised        *)
(* ballots 0 and N; the proposer has handled their four ACKs and multicast *)
(* ACCEPT(42, 0) and ACCEPT(41, N); acceptors 2 and 3 have declined the    *)
(* first and honored the second, and the proposer has taken their two      *)
(* ACCEPT-VALUE(41, N).  The four datagrams to acceptor 1 are in flight.   *)
(***************************************************************************)
InitSlowAcceptor ==
    LET c == 5
        N == 7
        p0 == <<42, 0>>
        p1 == <<41, N>>
        fast == {2, 3}
        accs == {1, 2, 3}
    IN  /\ hosts = HostTable(c, 2)
        /\ mode_counts = <<1, 3, 0>>
        /\ InitElected(c)
        /\ phase = [u \in 0..(c + 1) |-> IF u < c THEN "RUNNING" ELSE "WAIT"]
        /\ role = [u \in 0..(c - 1) |-> IF u = c - 1 THEN "LEARNER" ELSE RoleOfIdx(u)]
        /\ proposers = [u \in 0..(c - 1) |-> IdxList(0, 1)]
        /\ acceptors = [u \in 0..(c - 1) |-> IdxList(1, 3)]
        /\ learners = [u \in 0..(c - 1) |-> IdxList(4, 0)]
        /\ worker = [u \in 0..(c - 1) |-> "RUN"]
        /\ message_queue = [u \in 0..(c - 1) |-> <<>>]
        /\ seq = [u \in 0..(c - 1) |-> IF u = 0 THEN 2 * N ELSE u]
        /\ acceptances = [u \in 0..(c - 1) |-> IF u = 0 THEN <<p1, p1>> ELSE <<>>]
        /\ promises = [u \in 0..(c - 1) |-> IF u \in fast THEN <<p0, p1>> ELSE <<>>]
        /\ acks = [u \in 0..(c - 1) |->
                      IF u = 0
                      THEN << <<0, 42, NO_BALLOT>>, <<0, 42, NO_BALLOT>>,
                              <<N, 41, NO_BALLOT>>, <<N, 41, NO_BALLOT>> >>
                      ELSE <<>>]
        /\ v = [u \in c..(c + 1) |-> Values[u - c + 1]]
        /\ proposer = [u \in c..(c + 1) |-> clidriver_PROPOSER(u, Hints[u - c + 1])]
        /\ chosen_proposer = [u \in c..(c + 1) |-> 0]
        /\ chosen_value = [u \in c..(c + 1) |-> <<>>]
        /\ fwd_sent = {42, 41}
        /\ ballots = [u \in 0..(c - 1) |-> IF u = 0 THEN <<0, N>> ELSE <<>>]
        /\ history = [u \in 0..(c - 1) |->
                         IF u \in fast
                         THEN << [ev |-> "ACK", v |-> 42, n |-> 0],
                                 [ev |-> "ACK", v |-> 41, n |-> N],
                                 [ev |-> "HONOR", v |-> 41, n |-> N] >>
                         ELSE <<>>]
        /\ sets_emitted = [u \in 0..(c - 1) |-> {}]
        /\ early = {}
        /\ net = (udp_multicast(0, "PROPOSAL", p0, {1})
                    (+) udp_multicast(0, "PROPOSAL", p1, {1}))
                    (+) (udp_multicast(0, "ACCEPT", p0, {1})
                            (+) udp_multicast(0, "ACCEPT", p1, {1}))

NextSlowAcceptor ==
    \/ \E u \in con_nodes : Dispatch(u)

SpecSlowAcceptor == InitSlowAcceptor /\ [][NextSlowAcceptor]_vars

\* The acceptor a had replied ACK for ballot n before the k-th event of its
\* history.
PromisedBefore(a, n, k) ==
    \E i \in 1..(k - 1) : history[a][i].ev = "ACK" /\ history[a][i].n = n

\* The acceptor a has replied ACK for ballot n.
Promised(a, n) == PromisedBefore(a, n, Len(history[a]) + 1)

\* C7: the ballots of the ACCEPTs an acceptor honors, restricted to the
\* ballots it has promised, are non-decreasing over time.
C7_HonoredNonDecreasing ==
    \A a \in con_nodes : \A i, j \in DOMAIN history[a] :
        (/\ i < j
         /\ history[a][i].ev = "HONOR" /\ history[a][j].ev = "HONOR"
         /\ Promised(a, history[a][i].n) /\ Promised(a, history[a][j].n))
            => history[a][i].n <= history[a][j].n

\* C7, amended: the ballots of the ACCEPTs an acceptor honors, restricted to
\* the ballots it had already promised when it honored them, are
\* non-decreasing over time.
C7_HonoredPromisedNonDecreasing ==
    \A a \in con_nodes : \A i, j \in DOMAIN history[a] :
        (/\ i < j
         /\ history[a][i].ev = "HONOR" /\ history[a][j].ev = "HONOR"
         /\ PromisedBefore(a, history[a][i].n, i)
         /\ PromisedBefore(a, history[a][j].n, j))
            => history[a][i].n <= history[a][j].n

\* An acceptor honored the ACCEPTs of two ballots, each promised before, and
\* another acceptor holds a promise above an ACCEPT it did not honor.
C7_Witness ==
    /\ \E a \in con_nodes : \E i, j \in DOMAIN history[a] :
        /\ i < j
        /\ history[a][i].ev = "HONOR" /\ history[a][j].ev = "HONOR"
        /\ PromisedBefore(a, history[a][i].n, i)
        /\ PromisedBefore(a, history[a][j].n, j)
        /\ history[a][i].n < history[a][j].n
    /\ \E b \in con_nodes :
        /\ Promised(b, 0)
        /\ \A k \in DOMAIN history[b] : ~(history[b][k].ev = "HONOR" /\ history[b][k].n = 0)

(***************************************************************************)
(* SpecCR: the election, run inside the constructors of a ring of up to    *)
(* MaxRing consensus nodes; tokens are delivered in any order or lost.     *)
(* SpecCRLive: the same without loss, every thread scheduled fairly.       *)
(***************************************************************************)
MaxRing == 4

InitCR == \E c \in 1..MaxRing : InitElecting(c, 0, <<0, 0, c>>)

NextCRLive ==
    \/ \E u \in con_nodes : ChangRoberts(u)
    \/ \E u \in con_nodes : ChangRobertsListener(u)
    \/ \E u \in con_nodes : Constructed(u)

NextCR == NextCRLive \/ Lose

SpecCR == InitCR /\ [][NextCR]_vars

SpecCRLive ==
    /\ InitCR
    /\ [][NextCRLive]_vars
    /\ \A u \in 0..(MaxRing - 1) :
        /\ WF_vars(u \in con_nodes /\ ChangRoberts(u))
        /\ WF_vars(u \in con_nodes /\ ChangRobertsListener(u))
        /\ WF_vars(u \in con_nodes /\ Constructed(u))

\* The node with the largest uid of the ring.
LargestUid == NumCon - 1

\* C8 (Chang-Roberts correctness): at most one node ever sets is_leader, and a
\* node that sets it has the largest uid of the ring.
C8_AtMostOneLeaderAndLargest ==
    /\ Cardinality({u \in con_nodes : is_leader[u]}) <= 1
    /\ \A u \in con_nodes : is_leader[u] => u = LargestUid

\* A ring of MaxRing nodes has elected its leader after a BLACK node passed a
\* token on.
C8_Witness ==
    /\ NumCon = MaxRing
    /\ is_leader[LargestUid]
    /\ \E m \in BagToSet(net) : m.HEADER = "TOKEN" /\ m.MESSAGE = m.SENDERID
                                 /\ color[m.SENDERID] = "BLACK"

ElectionOver ==
    /\ is_leader[LargestUid]
    /\ \A u \in con_nodes : leader_is_chosen[u] /\ crlistener[u] = "RETURNED"

\* C9 (election termination): without loss the node with the largest uid
\* eventually declares itself leader, and every node eventually has
\* leader_is_chosen set and has left its election listener.
C9_ElectionTerminates == <>ElectionOver

C9_Witness == NumCon = MaxRing /\ ElectionOver /\ \A u \in con_nodes : phase[u] = "INIT"

(***************************************************************************)
(* SpecS1: scenario S1 (1 proposer uid 0, 3 acceptors uids 1..3, 1 learner *)
(* uid 4, which is the coordinator, 1 client uid 5 forwarding 42).  The    *)
(* run starts when every node has taken its role and runs, and the         *)
(* coordinator has multicast START: each non-coordinator got its ROLE as   *)
(* its first datagram, the coordinator's ROLE to itself found no socket    *)
(* bound, and the coordinator has processed its own copy of START, which   *)
(* leaves its role lists as they are.  No datagram is lost or duplicated   *)
(* from then on; START, FWD and the Paxos messages are delivered in any    *)
(* order.                                                                  *)
(***************************************************************************)
InitRunning(c, k, counts) ==
    LET leader == c - 1
        P == IdxList(0, counts[1])
        A == IdxList(counts[1], counts[2])
        L == IdxList(counts[1] + counts[2], counts[3])
    IN  /\ hosts = HostTable(c, k)
        /\ mode_counts = counts
        /\ InitElected(c)
        /\ phase = [u \in 0..(c + k - 1) |-> IF u < c THEN "RUNNING" ELSE "INIT"]
        /\ role = [u \in 0..(c - 1) |-> IF u = leader THEN "LEARNER" ELSE RoleOfIdx(u)]
        /\ proposers = [u \in 0..(c - 1) |-> IF u = leader THEN P ELSE <<>>]
        /\ acceptors = [u \in 0..(c - 1) |-> IF u = leader THEN A ELSE <<>>]
        /\ learners = [u \in 0..(c - 1) |-> IF u = leader THEN L ELSE <<>>]
        /\ worker = [u \in 0..(c - 1) |-> "RUN"]
        /\ message_queue = [u \in 0..(c - 1) |-> <<>>]
        /\ seq = [u \in 0..(c - 1) |-> u]
        /\ acceptances = [u \in 0..(c - 1) |-> <<>>]
        /\ promises = [u \in 0..(c - 1) |-> <<>>]
        /\ acks = [u \in 0..(c - 1) |-> <<>>]
        /\ v = [u \in c..(c + k - 1) |-> Values[u - c + 1]]
        /\ proposer = [u \in c..(c + k - 1) |-> clidriver_PROPOSER(u, Hints[u - c + 1])]
        /\ chosen_proposer = [u \in c..(c + k - 1) |-> -1]
        /\ chosen_value = [u \in c..(c + k - 1) |-> <<>>]
        /\ fwd_sent = {}
        /\ ballots = [u \in 0..(c - 1) |-> <<>>]
        /\ history = [u \in 0..(c - 1) |-> <<>>]
        /\ sets_emitted = [u \in 0..(c - 1) |-> {}]
        /\ early = {}
        /\ net = udp_multicast(leader, "START", <<P, A, L>>, (0..(c + k - 1)) \ {leader})

InitS1 == InitRunning(5, 1, <<1, 3, 1>>)

NextS1 ==
    \/ \E u \in con_nodes : Dispatch(u)
    \/ \E c \in cli_nodes : ClientInitializeNode(c)
    \/ \E c \in cli_nodes : Set(c)
    \/ \E c \in cli_nodes : wait(c)

SpecS1 == InitS1 /\ [][NextS1]_vars

\* Every client has received SET with the value it forwarded.
Decided == \A c \in cli_nodes : chosen_value[c] = <<v[c]>>

\* No step of the scenario is possible: every datagram has been received and
\* the client waits or is done.
Quiescent == ~ENABLED NextS1

\* An upper bound on the number of steps a datagram of scenario S1 can still
\* cause: its own receipt and the receipts of everything its handler can send
\* (a LEARN one SET, an ACCEPT-VALUE one LEARN, an ACCEPT one ACCEPT-VALUE and
\* one LEARN, an ACK three ACCEPTs, a PROPOSAL one ACK, a FWD three PROPOSALs).
Weight(header) ==
    CASE header = "LEARN" -> 2
      [] header = "ACCEPT-VALUE" -> 3
      [] header = "ACCEPT" -> 6
      [] header = "ACK" -> 19
      [] header = "PROPOSAL" -> 20
      [] header = "FWD" -> 61
      [] OTHER -> 1

\* The steps the run can still take, at most.
Measure ==
    BagCardinality([m \in BagToSet(net) |-> CopiesIn(m, net) * Weight(m.HEADER)])
    + (Weight("FWD") + 2) * Cardinality({c \in cli_nodes : phase[c] = "INIT"})
    + (Weight("FWD") + 1) * Cardinality({c \in cli_nodes : phase[c] = "SET"})

C11_AcceptanceRecorded ==
    /\ \A a \in con_nodes : \A k \in DOMAIN history[a] :
           history[a][k].ev = "HONOR"
               => <<history[a][k].v, history[a][k].n>> \in Range(acceptances[a])
    /\ (Quiescent /\ Decided) =>
           \A a \in Range(IdxList(mode_counts[1], mode_counts[2])) :
               <<42, 0>> \in Range(acceptances[a])

(***************************************************************************)
(* SpecS4: scenario S4.  Proposer uid 0, acceptors 1..3, learner 4, one    *)
(* client forwarding 99; every node has processed START.  One acceptor is  *)
(* preloaded with acceptances = <<(11, 7)>> before any proposal.           *)
(***************************************************************************)
InitS4 ==
    LET c == 5
        counts == <<1, 3, 1>>
    IN  /\ hosts = HostTable(c, 1)
        /\ mode_counts = counts
        /\ InitElected(c)
        /\ phase = [u \in 0..c |-> IF u < c THEN "RUNNING" ELSE "SET"]
        /\ role = [u \in 0..(c - 1) |-> IF u = c - 1 THEN "LEARNER" ELSE RoleOfIdx(u)]
        /\ proposers = [u \in 0..(c - 1) |-> IdxList(0, counts[1])]
        /\ acceptors = [u \in 0..(c - 1) |-> IdxList(counts[1], counts[2])]
        /\ learners = [u \in 0..(c - 1) |-> IdxList(counts[1] + counts[2], counts[3])]
        /\ worker = [u \in 0..(c - 1) |-> "RUN"]
        /\ message_queue = [u \in 0..(c - 1) |-> <<>>]
        /\ seq = [u \in 0..(c - 1) |-> u]
        /\ \E a \in Range(IdxList(counts[1], counts[2])) :
               acceptances = [u \in 0..(c - 1) |-> IF u = a THEN << <<11, 7>> >> ELSE <<>>]
        /\ promises = [u \in 0..(c - 1) |-> <<>>]
        /\ acks = [u \in 0..(c - 1) |-> <<>>]
        /\ v = [u \in c..c |-> 99]
        /\ proposer = [u \in c..c |-> clidriver_PROPOSER(u, Hints[u - c + 1])]
        /\ chosen_proposer = [u \in c..c |-> 0]
        /\ chosen_value = [u \in c..c |-> <<>>]
        /\ fwd_sent = {}
        /\ ballots = [u \in 0..(c - 1) |-> <<>>]
        /\ history = [u \in 0..(c - 1) |-> <<>>]
        /\ sets_emitted = [u \in 0..(c - 1) |-> {}]
        /\ early = {}
        /\ net = EmptyBag

SpecS4 == InitS4 /\ [][NextPaxos]_vars

\* The ACCEPT datagrams a step puts in flight.
NewAccepts ==
    {m \in BagToSet(net') : m.HEADER = "ACCEPT" /\ CopiesIn(m, net') > CopiesIn(m, net)}

\* The node u handles an ACK in this step.
HandlesAck(u) == role[u] = "PROPOSER" /\ Len(acks'[u]) = Len(acks[u]) + 1

\* The ballot of the ACK u handles in this step.
AckedBallot(u) == acks'[u][Len(acks'[u])][1]

\* The ACK u handles in this step completes a majority for its ballot.
ReachesMajority(u) ==
    /\ HandlesAck(u)
    /\ Cardinality(N1AckList(acks'[u], AckedBallot(u))) >= min_majority(u)

\* C12 (Chosen-value adoption): when a proposer reaches a majority of ACKs for
\* its ballot and one of them reports a previously accepted pair, the ACCEPT it
\* multicasts carries the value of the ACK with the highest reported ballot,
\* in whatever order the ACKs arrived.
C12_AdoptsReportedValue ==
    [][\A u \in con_nodes :
          LET counted == N1AckList(acks'[u], AckedBallot(u))
              reporting == {k \in counted : acks'[u][k][3] # NO_BALLOT}
              best == CHOOSE k \in reporting :
                          \A j \in reporting : acks'[u][j][3] <= acks'[u][k][3]
          IN  (ReachesMajority(u) /\ reporting # {})
                  => \A m \in NewAccepts : m.MESSAGE[1] = acks'[u][best][2]]_vars

(***************************************************************************)
(* SpecS6: scenario S6.  The configuration of S1 with every node started;  *)
(* the ACK of the first acceptor is dropped by the transport and never     *)
(* reaches the proposer, every other datagram is delivered.                *)
(***************************************************************************)
LossyAcceptor == IdxList(mode_counts[1], mode_counts[2])[1]

IsLostAck(m) == m.HEADER = "ACK" /\ m.SENDERID = LossyAcceptor

InitS6 == InitStarted(5, 1, <<1, 3, 1>>)

\* The transport drops the ACK.
DropAck ==
    /\ \E m \in BagToSet(net) : IsLostAck(m) /\ net' = Take(m)
    /\ UNCHANGED <<cfgVars, phase, electVars, roleVars, paxosVars, queueVars, cliVars,
                   histVars, early>>

\* A node receives and handles a datagram other than the ACK to be dropped.
DispatchDelivered(u) ==
    /\ Dispatch(u)
    /\ \A m \in BagToSet(net) : IsLostAck(m) => CopiesIn(m, net') >= CopiesIn(m, net)

NextS6 ==
    \/ DropAck
    \/ \E u \in con_nodes : DispatchDelivered(u)
    \/ \E c \in cli_nodes : Set(c)
    \/ \E c \in cli_nodes : wait(c)

SpecS6 == InitS6 /\ [][NextS6]_vars

QuiescentS6 == ~ENABLED NextS6

\* The proposer u takes an ACCEPT-VALUE of the lossy acceptor in this step.
TakesValueOfLossy(u, m) ==
    /\ role[u] = "PROPOSER"
    /\ m.HEADER = "ACCEPT-VALUE" /\ m.to = u /\ m.SENDERID = LossyAcceptor
    /\ CopiesIn(m, net') < CopiesIn(m, net)

\* The number of ACKs of this list counted towards the majority for ballot n.
Tally(list, n) == Cardinality(N1AckList(list, n))

\* C13 (Loss rescue via the fast path, S6): the proposer counts the acceptor
\* whose ACK was dropped towards its majority when it takes that acceptor's
\* ACCEPT-VALUE(v, n), and the run ends with the client having received SET.
C13_FastPathCounts ==
    /\ [][\A u \in con_nodes : \A m \in BagToSet(net) :
             TakesValueOfLossy(u, m)
                 => Tally(acks'[u], m.MESSAGE[2]) = Tally(acks[u], m.MESSAGE[2]) + 1]_vars
    /\ [](QuiescentS6 => Decided)

\* C13, amended: the ACCEPT-VALUE(v, n) of the acceptor whose ACK was dropped
\* is appended to the proposer's acceptances and forwarded as LEARN(v, n); it
\* leaves the ACKs counted for n as they are.  The majority comes from the
\* ACKs of the other acceptors, and the run ends, after finitely many steps,
\* with the client having received SET.
C13_FastPathForwards ==
    /\ [][\A u \in con_nodes : \A m \in BagToSet(net) :
             TakesValueOfLossy(u, m)
                 => /\ acks'[u] = acks[u]
                    /\ acceptances'[u] = Append(acceptances[u], m.MESSAGE)
                    /\ \A l \in Range(learners[u]) :
                           LET fwd == udp_send(u, "LEARN", m.MESSAGE, l)
                           IN  CopiesIn(fwd, net') = CopiesIn(fwd, net) + 1]_vars
    /\ [][Measure' < Measure]_vars
    /\ [](QuiescentS6 => Decided)

\* The run has ended with the decision, the lossy acceptor honored an ACCEPT
\* and the proposer received two ACKs only.
C13_Witness ==
    /\ QuiescentS6 /\ Decided
    /\ \E k \in DOMAIN history[LossyAcceptor] : history[LossyAcceptor][k].ev = "HONOR"
    /\ \A p \in Range(IdxList(0, mode_counts[1])) : Len(acks[p]) = mode_counts[2] - 1

(***************************************************************************)
(* SpecShim: a started run of one proposer, one acceptor, one learner and  *)
(* one client, listener and worker as separate threads, the client's       *)
(* CleanupNode included.  The transport also delivers, once, a datagram to *)
(* a node whose role does not handle its header.                           *)
(***************************************************************************)
\* The role whose branch of queue_listen accepts the header.
HandlerRole(header) ==
    CASE header \in {"FWD", "NACK", "ACK"} -> "PROPOSER"
      [] header \in {"PROPOSAL", "ACCEPT"} -> "ACCEPTOR"
      [] header = "LEARN" -> "LEARNER"

RoleChecked == {"FWD", "NACK", "ACK", "PROPOSAL", "ACCEPT", "LEARN"}

Misrouted(m) == m.HEADER \in RoleChecked /\ role[m.to] # HandlerRole(m.HEADER)

\* The datagrams of each checked header that can be handed to node u.
Datagrams(u) ==
    {cli_udp_send("FWD", Values[1], u),
     udp_send(u, "PROPOSAL", <<Values[1], 0>>, u),
     udp_send(u, "ACK", <<0, Values[1], NO_BALLOT>>, u),
     udp_send(u, "NACK", <<Values[1], 0>>, u),
     udp_send(u, "ACCEPT", <<Values[1], 0>>, u),
     udp_send(u, "LEARN", <<Values[1], 0>>, u)}

MisroutedPending ==
    \/ \E m \in BagToSet(net) : m.to \in con_nodes /\ Misrouted(m)
    \/ \E u \in con_nodes : \E k \in DOMAIN message_queue[u] : Misrouted(message_queue[u][k])

\* A datagram with a header the receiver's role does not handle arrives.
Inject ==
    /\ ~MisroutedPending
    /\ \A u \in con_nodes : worker[u] = "RUN"
    /\ \E u \in con_nodes : \E m \in Datagrams(u) :
        /\ phase[u] = "RUNNING"
        /\ Misrouted(m)
        /\ net' = net (+) SetToBag({m})
    /\ UNCHANGED <<cfgVars, phase, electVars, roleVars, paxosVars, queueVars, cliVars,
                   histVars, early>>

InitShim == InitStarted(3, 1, <<1, 1, 1>>)

NextShim ==
    \/ Inject
    \/ \E u \in con_nodes : udp_listen(u)
    \/ \E u \in con_nodes : queue_listen(u)
    \/ \E c \in cli_nodes : Set(c)
    \/ \E c \in cli_nodes : wait(c)
    \/ \E c \in cli_nodes : CleanupNode(c)

\* Every thread that can run keeps running.
SpecShim ==
    /\ InitShim
    /\ [][NextShim]_vars
    /\ \A u \in 0..3 :
        /\ WF_vars(u \in con_nodes /\ udp_listen(u))
        /\ WF_vars(u \in con_nodes /\ queue_listen(u))
        /\ WF_vars(u \in cli_nodes /\ Set(u))
        /\ WF_vars(u \in cli_nodes /\ wait(u))
        /\ WF_vars(u \in cli_nodes /\ CleanupNode(u))

\* The listener of u has received a TERM.
TermDelivered(u) ==
    \E k \in DOMAIN message_queue[u] : message_queue[u][k].HEADER = "TERM"

\* C14 (Termination on TERM): every running consensus node to which a TERM
\* is delivered eventually exits, whatever it processed before, a message
\* that raised the misrouted-header error included.
C14_TermExits ==
    \A u \in 0..2 : TermDelivered(u) ~> (phase[u] = "TERMINATED")

(***************************************************************************)
(* The client edge, under Spec.                                            *)
(***************************************************************************)
\* The proposer the client c is to address: proposers[hint mod |proposers|].
HintedProposer(c) ==
    IdxList(0, mode_counts[1])[(Hints[c - NumCon + 1] % mode_counts[1]) + 1]

\* C15 (Client target selection): a client started with <uid> <value>
\* <proposer_hint> sends its FWD(value) to proposers[proposer_hint mod
\* |proposers|] of the START partition.
C15_ClientTarget ==
    \A c \in cli_nodes : \A m \in BagToSet(net) :
        (m.HEADER = "FWD" /\ m.MESSAGE = v[c]) => m.to = HintedProposer(c)

(***************************************************************************)
(* Phase 1b and Phase 3, under SpecPaxos.                                  *)
(***************************************************************************)
\* The pairs (v, n) of the ACCEPTs the acceptor a has honored so far.
HonoredBy(a) ==
    {<<history[a][k].v, history[a][k].n>> :
        k \in {j \in DOMAIN history[a] : history[a][j].ev = "HONOR"}}

\* The datagrams with this header that node u sends in this step.
NewFrom(u, header) ==
    {m \in BagToSet(net') :
        /\ m.HEADER = header
        /\ m.SENDERID = u
        /\ CopiesIn(m, net') > CopiesIn(m, net)}

\* C16 (Phase 1b reports earlier acceptances): an acceptor that has honored
\* ACCEPT(v*, n*) and later promises a PROPOSAL with ballot n >= n* replies
\* ACK(n, v*, n*), (v*, n*) being the pair with the highest ballot it has
\* accepted, and not ACK(n, v, _) with the value of the proposal.
C16_AckReportsAcceptance ==
    [][\A a \in con_nodes : \A m \in NewFrom(a, "ACK") :
          (HonoredBy(a) # {} /\ \A q \in HonoredBy(a) : q[2] <= m.MESSAGE[1])
              => \E p \in HonoredBy(a) :
                    /\ \A q \in HonoredBy(a) : q[2] <= p[2]
                    /\ m.MESSAGE = <<m.MESSAGE[1], p[1], p[2]>>]_vars

\* The acceptors that have honored ACCEPT(val, n).
Honorers(val, n) == {a \in con_nodes : <<val, n>> \in HonoredBy(a)}

\* C17 (SET only for a chosen value): whenever a learner multicasts SET(v)
\* after a LEARN(v, n), at least floor(A/2)+1 distinct acceptors have
\* honored ACCEPT(v, n).
C17_SetOnlyChosen ==
    [][\A u \in con_nodes :
          NewFrom(u, "SET") # {}
              => LET learned == acceptances'[u][Len(acceptances'[u])]
                 IN  Cardinality(Honorers(learned[1], learned[2])) >= Majority]_vars

\* C18 (ACCEPT carries the acknowledged ballot): when a proposer reaches a
\* majority of ACKs for ballot n, the ACCEPT it multicasts carries n, whatever
\* value it adopts and whether or not its acceptances list holds pairs
\* learned through ACCEPT-VALUE.
C18_AcceptCarriesAckedBallot ==
    [][\A u \in con_nodes :
          ReachesMajority(u)
              => /\ NewFrom(u, "ACCEPT") # {}
                 /\ \A m \in NewFrom(u, "ACCEPT") : m.MESSAGE[2] = AckedBallot(u)]_vars

(***************************************************************************)
(* SpecLateAck: the run of SpecSlowAcceptor two steps earlier.  Acceptors  *)
(* 2 and 3 have promised ballots 0 and 7, turned down ACCEPT(42, 0) and    *)
(* honored ACCEPT(41, 7); their ACCEPT-VALUE(41, 7) are still on the way   *)
(* to the proposer.  Acceptor 1 has received nothing yet.                  *)
(***************************************************************************)
InitLateAck ==
    LET c == 5
        N == 7
        p0 == <<42, 0>>
        p1 == <<41, N>>
        fast == {2, 3}
    IN  /\ hosts = HostTable(c, 2)
        /\ mode_counts = <<1, 3, 0>>
        /\ InitElected(c)
        /\ phase = [u \in 0..(c + 1) |-> IF u < c THEN "RUNNING" ELSE "WAIT"]
        /\ role = [u \in 0..(c - 1) |-> IF u = c - 1 THEN "LEARNER" ELSE RoleOfIdx(u)]
        /\ proposers = [u \in 0..(c - 1) |-> IdxList(0, 1)]
        /\ acceptors = [u \in 0..(c - 1) |-> IdxList(1, 3)]
        /\ learners = [u \in 0..(c - 1) |-> IdxList(4, 0)]
        /\ worker = [u \in 0..(c - 1) |-> "RUN"]
        /\ message_queue = [u \in 0..(c - 1) |-> <<>>]
        /\ seq = [u \in 0..(c - 1) |-> IF u = 0 THEN 2 * N ELSE u]
        /\ acceptances = [u \in 0..(c - 1) |-> <<>>]
        /\ promises = [u \in 0..(c - 1) |-> IF u \in fast THEN <<p0, p1>> ELSE <<>>]
        /\ acks = [u \in 0..(c - 1) |->
                      IF u = 0
                      THEN << <<0, 42, NO_BALLOT>>, <<0, 42, NO_BALLOT>>,
                              <<N, 41, NO_BALLOT>>, <<N, 41, NO_BALLOT>> >>
                      ELSE <<>>]
        /\ v = [u \in c..(c + 1) |-> Values[u - c + 1]]
        /\ proposer = [u \in c..(c + 1) |-> clidriver_PROPOSER(u, Hints[u - c + 1])]
        /\ chosen_proposer = [u \in c..(c + 1) |-> 0]
        /\ chosen_value = [u \in c..(c + 1) |-> <<>>]
        /\ fwd_sent = {42, 41}
        /\ ballots = [u \in 0..(c - 1) |-> IF u = 0 THEN <<0, N>> ELSE <<>>]
        /\ history = [u \in 0..(c - 1) |->
                         IF u \in fast
                         THEN << [ev |-> "ACK", v |-> 42, n |-> 0],
                                 [ev |-> "ACK", v |-> 41, n |-> N],
                                 [ev |-> "HONOR", v |-> 41, n |-> N] >>
                         ELSE <<>>]
        /\ sets_emitted = [u \in 0..(c - 1) |-> {}]
        /\ early = {}
        /\ net = ((udp_multicast(0, "PROPOSAL", p0, {1})
                    (+) udp_multicast(0, "PROPOSAL", p1, {1}))
                    (+) (udp_multicast(0, "ACCEPT", p0, {1})
                            (+) udp_multicast(0, "ACCEPT", p1, {1})))
                    (+) SetToBag({udp_send(a, "ACCEPT-VALUE", p1, 0) : a \in fast})

SpecLateAck == InitLateAck /\ [][NextSlowAcceptor]_vars

\* The pairs (v, n) of the ACCEPTs in flight and of the ACCEPTs honored.
AcceptPairs ==
    {m.MESSAGE : m \in {d \in BagToSet(net) : d.HEADER = "ACCEPT"}}
        \cup UNION {HonoredBy(a) : a \in con_nodes}

\* C19 (One value per ballot): for every ballot n, all ACCEPT messages
\* multicast with ballot n, and hence all LEARN(_, n) entries a learner
\* counts together, carry the same value.
C19_OneValuePerBallot ==
    /\ \A p, q \in AcceptPairs : p[2] = q[2] => p[1] = q[1]
    /\ \A u \in con_nodes :
          role[u] = "LEARNER"
              => \A j, k \in DOMAIN acceptances[u] :
                    acceptances[u][j][2] = acceptances[u][k][2]
                        => acceptances[u][j][1] = acceptances[u][k][1]

(***************************************************************************)
(* Messages handled before START, under SpecS1.                            *)
(***************************************************************************)
RoleSpecific == {"FWD", "PROPOSAL", "ACK", "ACCEPT", "LEARN"}

\* Node u handles, in this step, the role-specific message m while it has
\* not yet processed START.
HandlesBeforeStart(u, m) ==
    /\ m.to = u
    /\ m.HEADER \in RoleSpecific
    /\ BeforeStart(u, m)
    /\ CopiesIn(m, net') < CopiesIn(m, net)

\* C20 (Out-of-order START): a role-specific message (FWD, PROPOSAL, ACK,
\* ACCEPT or LEARN) that a node processes before it has processed START is
\* dropped: the node sends nothing in response and its ballot counter,
\* promises, acks and acceptances are unchanged.
C20_DroppedBeforeStart ==
    [][\A u \in con_nodes : \A m \in BagToSet(net) :
          HandlesBeforeStart(u, m)
              => /\ seq'[u] = seq[u]
                 /\ promises'[u] = promises[u]
                 /\ acks'[u] = acks[u]
                 /\ acceptances'[u] = acceptances[u]
                 /\ \A d \in BagToSet(net') : CopiesIn(d, net') <= CopiesIn(d, net)]_vars

(***************************************************************************)
(* Phase 1b refusal, under SpecPaxos.                                      *)
(***************************************************************************)
\* The acceptor a handles, in this step, the PROPOSAL m while it holds a
\* promise with a greater ballot.
RefusesProposal(a, m) ==
    /\ m.HEADER = "PROPOSAL"
    /\ m.to = a
    /\ role[a] = "ACCEPTOR"
    /\ CopiesIn(m, net') < CopiesIn(m, net)
    /\ Greater(promises[a], m.MESSAGE[2]) # {}

\* C21 (Phase 1b refusal): an acceptor that processes PROPOSAL(v, n) while
\* it holds a promise with a ballot m > n sends NACK(v, n) to the proposer
\* named by the message's sender uid, and records no promise for n.
C21_RefusalSendsNack ==
    [][\A a \in con_nodes : \A m \in BagToSet(net) :
          RefusesProposal(a, m)
              => /\ udp_send(a, "NACK", m.MESSAGE, m.SENDERID) \in NewFrom(a, "NACK")
                 /\ promises'[a] = promises[a]]_vars

(***************************************************************************)
(* SpecDup: a started run of one proposer, two acceptors, one learner and  *)
(* one client over a transport that may deliver an ACK or a LEARN twice.   *)
(***************************************************************************)
\* The list in which the receiver of m records messages of m's header.
RecordedAt(m) ==
    IF m.HEADER = "ACK" THEN acks[m.to] ELSE acceptances[m.to]

\* The transport duplicates an ACK or a LEARN in flight whose content the
\* receiver has not recorded yet: the receiver will get it twice.
Duplicate ==
    /\ \E m \in BagToSet(net) :
        /\ m.HEADER \in {"ACK", "LEARN"}
        /\ CopiesIn(m, net) = 1
        /\ m.MESSAGE \notin Range(RecordedAt(m))
        /\ net' = net (+) SetToBag({m})
    /\ UNCHANGED <<cfgVars, phase, electVars, roleVars, paxosVars, queueVars, cliVars,
                   histVars, early>>

InitDup == InitStarted(4, 1, <<1, 2, 1>>)

NextDup ==
    \/ Duplicate
    \/ \E u \in con_nodes : Dispatch(u)
    \/ \E c \in cli_nodes : Set(c)
    \/ \E c \in cli_nodes : wait(c)

SpecDup == InitDup /\ [][NextDup]_vars

\* The acceptors that have acknowledged ballot n.
Ackers(n) ==
    {a \in con_nodes :
        \E k \in DOMAIN history[a] : history[a][k].ev = "ACK" /\ history[a][k].n = n}

\* C22 (Duplicate tolerance): a second copy of an ACK or LEARN does not add
\* to the count toward the majority, so a proposer never multicasts ACCEPT
\* and a learner never multicasts SET on the strength of messages from fewer
\* than floor(A/2)+1 distinct acceptors.
C22_DuplicatesNotCounted ==
    [][\A u \in con_nodes :
          /\ (HandlesAck(u) /\ NewFrom(u, "ACCEPT") # {})
                 => Cardinality(Ackers(AckedBallot(u))) >= Majority
          /\ NewFrom(u, "SET") # {}
                 => LET learned == acceptances'[u][Len(acceptances'[u])]
                    IN  Cardinality(Honorers(learned[1], learned[2])) >= Majority]_vars

(***************************************************************************)
(* Election forwarding, under SpecCRLive.                                  *)
(***************************************************************************)
\* The BLACK node u takes the token datagram m in this step.
BlackReceives(u, m) ==
    /\ m.to = u
    /\ m.HEADER = "TOKEN"
    /\ m.MESSAGE # TERM_TOKEN
    /\ color[u] = "BLACK"
    /\ crlistener[u] = "LISTEN"
    /\ CopiesIn(m, net') < CopiesIn(m, net)

\* C23 (Election forwarding): a BLACK node that receives TOKEN(j) forwards
\* TOKEN(j), with the same j, to its ring successor (u+1) mod C.
C23_BlackForwardsUnchanged ==
    [][\A u \in con_nodes : \A m \in BagToSet(net) :
          BlackReceives(u, m)
              => LET fwd == udp_send(u, "TOKEN", m.MESSAGE, neighbor_id(u))
                 IN  CopiesIn(fwd, net') > CopiesIn(fwd, net)]_vars

(***************************************************************************)
(* SpecThreads: a started run of one proposer, two acceptors, one learner  *)
(* and one client in which the listener and the worker of every node are   *)
(* separate threads, interleaved in every way.                             *)
(***************************************************************************)
InitThreads == InitStarted(4, 1, <<1, 2, 1>>)

NextThreads ==
    \/ \E u \in con_nodes : udp_listen(u)
    \/ \E u \in con_nodes : queue_listen(u)
    \/ \E c \in cli_nodes : Set(c)
    \/ \E c \in cli_nodes : wait(c)

SpecThreads == InitThreads /\ [][NextThreads]_vars

\* The listener of u puts the datagram m at the end of the queue.
Enqueues(u, m) ==
    /\ m.HEADER # "ACCEPT-VALUE"
    /\ message_queue'[u] = Append(message_queue[u], m)
    /\ net' = Take(m)

\* The worker of u takes the oldest message off the queue and routes it.
ProcessesOldest(u) ==
    /\ message_queue[u] # <<>>
    /\ message_queue'[u] = Tail(message_queue[u])
    /\ Route(u, Head(message_queue[u]), net)

\* Nothing the worker of u does happens in this step.
WorkerIdle(u) ==
    /\ seq'[u] = seq[u] /\ promises'[u] = promises[u] /\ acks'[u] = acks[u]
    /\ proposers'[u] = proposers[u] /\ acceptors'[u] = acceptors[u]
    /\ learners'[u] = learners[u]
    /\ worker'[u] = worker[u] /\ phase'[u] = phase[u]
    /\ history'[u] = history[u] /\ sets_emitted'[u] = sets_emitted[u]
    /\ \A h \in {"PROPOSAL", "ACK", "NACK", "ACCEPT", "ACCEPT-VALUE", "SET"} :
           NewFrom(u, h) = {}

\* C24 (Dispatcher): under every interleaving of listener and worker, each
\* received message whose header is not ACCEPT-VALUE is put at the end of
\* the queue once, the worker processes the messages one at a time from the
\* front of the queue, nothing is processed that is not taken off the queue,
\* and no ACCEPT-VALUE is ever in the queue.
C24_QueueDiscipline ==
    /\ [](\A u \in con_nodes : \A k \in DOMAIN message_queue[u] :
              message_queue[u][k].HEADER # "ACCEPT-VALUE")
    /\ [][\A u \in con_nodes :
             IF message_queue'[u] # message_queue[u]
             THEN \/ \E m \in InFlight(u) : Enqueues(u, m) /\ WorkerIdle(u)
                  \/ ProcessesOldest(u)
             ELSE WorkerIdle(u)]_vars

\* The learner has processed a LEARN, and two different LEARN messages wait
\* in its queue behind one another; the proposer's listener has applied an
\* ACCEPT-VALUE.
C24_Witness ==
    \E u \in con_nodes :
        /\ role[u] = "LEARNER"
        /\ acceptances[u] # <<>>
        /\ Len(message_queue[u]) = 2
        /\ message_queue[u][1] # message_queue[u][2]
        /\ \E p \in con_nodes : role[p] = "PROPOSER" /\ acceptances[p] # <<>>

(***************************************************************************)
(* SpecRoles: role assignment for every small configuration: up to         *)
(* MaxNodes consensus nodes, one client, up to MaxCount hosts per role.    *)
(***************************************************************************)
MaxNodes == 4
MaxCount == 2

InitRoles ==
    \E c \in 1..MaxNodes : \E P \in 0..MaxCount : \E A \in 0..MaxCount :
        \E L \in 0..MaxCount :
            /\ P + A + L <= c + 1
            /\ InitConstructed(c, 1, <<P, A, L>>)

NextRoles ==
    \/ \E u \in con_nodes : LeaderInitializeNode(u)
    \/ \E u \in con_nodes : InitializeNode(u)
    \/ \E u \in con_nodes : Run(u)

SpecRoles == InitRoles /\ [][NextRoles]_vars

\* The START datagrams in flight.
Starts == {m \in BagToSet(net) : m.HEADER = "START"}

\* The sequence s lists exactly the uids lo .. lo + count - 1, each once.
Lists(s, lo, count) ==
    Len(s) = count /\ Range(s) = {i \in Uids : lo <= i /\ i < lo + count}

\* C25 (Role partition): START lists uids 0..P-1 as proposers, P..P+A-1 as
\* acceptors and P+A..P+A+L-1 as learners, the lists are pairwise disjoint,
\* and every non-coordinator node that has received its ROLE has the role
\* of the list that contains its uid.
C25_RolePartition ==
    \A m \in Starts :
        LET P == mode_counts[1]
            A == mode_counts[2]
            L == mode_counts[3]
            ps == Range(m.MESSAGE[1])
            as == Range(m.MESSAGE[2])
            ls == Range(m.MESSAGE[3])
        IN  /\ Lists(m.MESSAGE[1], 0, P)
            /\ Lists(m.MESSAGE[2], P, A)
            /\ Lists(m.MESSAGE[3], P + A, L)
            /\ ps \cap as = {} /\ ps \cap ls = {} /\ as \cap ls = {}
            /\ \A u \in con_nodes :
                  (~is_leader[u] /\ role[u] # "")
                      => /\ u \in ps \cup as \cup ls
                         /\ role[u] = "PROPOSER" <=> u \in ps
                         /\ role[u] = "ACCEPTOR" <=> u \in as
                         /\ role[u] = "LEARNER" <=> u \in ls

\* START is in flight in a run of MaxNodes nodes with every role present,
\* and every other node has taken its role.
C25_Witness ==
    /\ Starts # {}
    /\ NumCon = MaxNodes
    /\ \A k \in 1..2 : mode_counts[k] > 0
    /\ \A u \in con_nodes : role[u] # ""
    /\ \E u \in con_nodes : role[u] = "PROPOSER"
    /\ \E u \in con_nodes : role[u] = "ACCEPTOR"

\* C26 (Coordinator role consistency): for every configuration of the role
\* counts, the coordinator, which takes the Learner role itself, has its uid
\* in the learners list it multicasts in START, and in no other list.
C26_CoordinatorIsListedLearner ==
    \A m \in Starts :
        /\ role[m.SENDERID] = "LEARNER"
        /\ m.SENDERID \in Range(m.MESSAGE[3])
        /\ m.SENDERID \notin Range(m.MESSAGE[1]) \cup Range(m.MESSAGE[2])

(***************************************************************************)
(* Misrouted headers, under SpecShim.                                      *)
(***************************************************************************)
\* The worker of u takes a misrouted message off its queue in this step.
PopsMisrouted(u) ==
    /\ message_queue[u] # <<>>
    /\ Misrouted(Head(message_queue[u]))
    /\ message_queue'[u] = Tail(message_queue[u])

\* C27 (Misrouted header): a role-specific message processed at a node of a
\* different role raises a fatal error: the node sends no message in
\* response and its ballot counter, promises, acks and acceptances are
\* unchanged.
C27_MisroutedRaises ==
    [][\A u \in con_nodes :
          PopsMisrouted(u)
              => /\ worker'[u] = "RAISED"
                 /\ seq'[u] = seq[u]
                 /\ promises'[u] = promises[u]
                 /\ acks'[u] = acks[u]
                 /\ acceptances'[u] = acceptances[u]
                 /\ \A d \in BagToSet(net') : CopiesIn(d, net') <= CopiesIn(d, net)]_vars

\* The worker of a node that holds a promise has raised, and nothing
\* misrouted is left to handle.
C27_Witness ==
    /\ \E u \in con_nodes : worker[u] = "RAISED" /\ promises[u] # <<>>
    /\ ~MisroutedPending

====
